---- MODULE Spec2Model ----
(***************************************************************************)
(* Tippr: the validation, arithmetic and penny-distribution functions of   *)
(* src/lib/calculations.ts, and the components that call them: the state   *)
(* and the handlers of Calculator, TipSelector, SplitToggle, RoundToggle.  *)
(*                                                                         *)
(* The program computes with JavaScript numbers (IEEE-754 binary64).  The  *)
(* model keeps that arithmetic: a number is a sign, an odd mantissa of at  *)
(* most 53 bits and a binary exponent, and every operation rounds its      *)
(* exact result to the nearest such number, ties to even.  Mantissas are   *)
(* natural numbers of arbitrary size, held as little-endian sequences of   *)
(* limbs in base 2^15 so that no intermediate value leaves TLC's integers. *)
(* Exponent range (overflow to Infinity, subnormals) is not modelled: the  *)
(* inputs of the model stay far inside it.                                 *)
(***************************************************************************)
EXTENDS Integers, Sequences, FiniteSets, TLC

Max(a, b) == IF a >= b THEN a ELSE b
Min(a, b) == IF a <= b THEN a ELSE b

(***************************************************************************)
(* Natural numbers of arbitrary size.                                      *)
(***************************************************************************)
Base == 2^15

RECURSIVE BNorm(_)
BNorm(a) ==
  IF a = <<>> THEN <<>>
  ELSE IF a[Len(a)] = 0 THEN BNorm(SubSeq(a, 1, Len(a) - 1)) ELSE a

RECURSIVE BFromInt(_)
BFromInt(n) == IF n = 0 THEN <<>> ELSE <<n % Base>> \o BFromInt(n \div Base)

RECURSIVE BToInt(_)
BToInt(a) == IF a = <<>> THEN 0 ELSE a[1] + Base * BToInt(Tail(a))

RECURSIVE BAddC(_, _, _)
BAddC(a, b, c) ==
  IF a = <<>> /\ b = <<>> THEN (IF c = 0 THEN <<>> ELSE <<c>>)
  ELSE LET x == (IF a = <<>> THEN 0 ELSE a[1]) + (IF b = <<>> THEN 0 ELSE b[1]) + c
       IN  <<x % Base>> \o BAddC(IF a = <<>> THEN <<>> ELSE Tail(a),
                                 IF b = <<>> THEN <<>> ELSE Tail(b),
                                 x \div Base)

BAdd(a, b) == BAddC(a, b, 0)

\* a - b for a >= b
RECURSIVE BSubC(_, _, _)
BSubC(a, b, c) ==
  IF a = <<>> THEN <<>>
  ELSE LET x == a[1] - (IF b = <<>> THEN 0 ELSE b[1]) - c
       IN  <<(x + Base) % Base>> \o BSubC(Tail(a),
                                          IF b = <<>> THEN <<>> ELSE Tail(b),
                                          IF x < 0 THEN 1 ELSE 0)

BSub(a, b) == BNorm(BSubC(a, b, 0))

RECURSIVE BMulSmallC(_, _, _)
BMulSmallC(a, k, c) ==
  IF a = <<>> THEN BFromInt(c)
  ELSE LET x == a[1] * k + c
       IN  <<x % Base>> \o BMulSmallC(Tail(a), k, x \div Base)

\* a * k for 0 <= k <= Base
BMulSmall(a, k) == BNorm(BMulSmallC(a, k, 0))

RECURSIVE BMul(_, _)
BMul(a, b) ==
  IF a = <<>> \/ b = <<>> THEN <<>>
  ELSE LET rest == BMul(a, Tail(b))
       IN  BAdd(BMulSmall(a, b[1]), IF rest = <<>> THEN <<>> ELSE <<0>> \o rest)

\* quotient and remainder of a by d, 0 < d <= Base
RECURSIVE BDivSmallR(_, _)
BDivSmallR(a, d) ==
  IF a = <<>> THEN [q |-> <<>>, r |-> 0]
  ELSE LET hi == BDivSmallR(Tail(a), d)
           x  == hi.r * Base + a[1]
       IN  [q |-> <<x \div d>> \o hi.q, r |-> x % d]

BDivSmall(a, d) == LET qr == BDivSmallR(a, d) IN [q |-> BNorm(qr.q), r |-> qr.r]

RECURSIVE BLessFrom(_, _, _)
BLessFrom(a, b, i) ==
  IF i = 0 THEN FALSE
  ELSE IF a[i] # b[i] THEN a[i] < b[i] ELSE BLessFrom(a, b, i - 1)

BLess(a, b) == Len(a) < Len(b) \/ (Len(a) = Len(b) /\ BLessFrom(a, b, Len(a)))

RECURSIVE BitLenInt(_)
BitLenInt(n) == IF n = 0 THEN 0 ELSE 1 + BitLenInt(n \div 2)

BBitLen(a) == IF a = <<>> THEN 0 ELSE 15 * (Len(a) - 1) + BitLenInt(a[Len(a)])

RECURSIVE Zeros(_)
Zeros(n) == IF n = 0 THEN <<>> ELSE <<0>> \o Zeros(n - 1)

\* a * 2^k
BShl(a, k) == IF a = <<>> THEN <<>> ELSE Zeros(k \div 15) \o BMulSmall(a, 2^(k % 15))

\* floor(a / 2^k)
BShr(a, k) ==
  IF Len(a) <= k \div 15 THEN <<>>
  ELSE BDivSmall(SubSeq(a, (k \div 15) + 1, Len(a)), 2^(k % 15)).q

\* a mod 2^k
BLow(a, k) ==
  IF Len(a) <= k \div 15 THEN a
  ELSE BNorm(SubSeq(a, 1, k \div 15) \o <<a[(k \div 15) + 1] % (2^(k % 15))>>)

RECURSIVE TrailingZerosInt(_)
TrailingZerosInt(n) == IF n % 2 = 1 THEN 0 ELSE 1 + TrailingZerosInt(n \div 2)

\* the number of trailing zero bits of a > 0
RECURSIVE BTrailingZeros(_)
BTrailingZeros(a) ==
  IF a[1] = 0 THEN 15 + BTrailingZeros(Tail(a)) ELSE TrailingZerosInt(a[1])

(***************************************************************************)
(* JavaScript numbers: [neg, m, e] stands for (-1)^neg * m * 2^e, m odd,   *)
(* or m = 0 with e = 0.                                                    *)
(***************************************************************************)
DZero == [neg |-> FALSE, m |-> <<>>, e |-> 0]

DCanon(neg, n, e) ==
  IF n = <<>> THEN DZero
  ELSE LET z == BTrailingZeros(n) IN [neg |-> neg, m |-> BShr(n, z), e |-> e + z]

\* the number nearest to (n + s) * 2^e, ties to even, where 0 < s < 1 when
\* sticky and s = 0 otherwise; a sticky n has more than 53 bits
DRound(neg, n, e, sticky) ==
  LET L == BBitLen(n)
  IN  IF L <= 53 THEN DCanon(neg, n, e)
      ELSE LET k    == L - 53
               q    == BShr(n, k)
               r    == BLow(n, k)
               half == BShl(<<1>>, k - 1)
               up   == BLess(half, r) \/ (r = half /\ (sticky \/ q[1] % 2 = 1))
           IN  DCanon(neg, IF up THEN BAdd(q, <<1>>) ELSE q, e + k)

DFromInt(n) == IF n < 0 THEN DCanon(TRUE, BFromInt(-n), 0) ELSE DCanon(FALSE, BFromInt(n), 0)

\* x * y
DMul(x, y) == DRound(x.neg # y.neg, BMul(x.m, y.m), x.e + y.e, FALSE)

\* x / d for an integer d in 1..Base
DDivInt(x, d) ==
  IF x.m = <<>> THEN DZero
  ELSE LET t  == Max(0, 56 + BitLenInt(d) - BBitLen(x.m))
           qr == BDivSmall(BShl(x.m, t), d)
       IN  DRound(x.neg, qr.q, x.e - t, qr.r # 0)

\* x + y for x, y >= 0
DAdd(x, y) ==
  LET e0 == Min(x.e, y.e)
  IN  DRound(FALSE, BAdd(BShl(x.m, x.e - e0), BShl(y.m, y.e - e0)), e0, FALSE)

\* Math.abs(x - y) for x, y >= 0
DAbsDiff(x, y) ==
  LET e0 == Min(x.e, y.e)
      a  == BShl(x.m, x.e - e0)
      b  == BShl(y.m, y.e - e0)
  IN  IF BLess(a, b) THEN DRound(FALSE, BSub(b, a), e0, FALSE)
      ELSE DRound(FALSE, BSub(a, b), e0, FALSE)

\* x < y
DLess(x, y) ==
  LET e0 == Min(x.e, y.e)
      a  == BShl(x.m, x.e - e0)
      b  == BShl(y.m, y.e - e0)
  IN  IF x.neg /\ ~y.neg THEN TRUE
      ELSE IF ~x.neg /\ y.neg THEN FALSE
      ELSE IF x.neg THEN BLess(b, a) ELSE BLess(a, b)

DLeq(x, y) == ~DLess(y, x)

\* Math.floor, Math.ceil and Math.round (halves go up) of x >= 0
MathFloor(x) == IF x.e >= 0 THEN x ELSE DCanon(FALSE, BShr(x.m, -x.e), 0)

MathCeil(x) == IF x.e >= 0 THEN x ELSE DCanon(FALSE, BAdd(BShr(x.m, -x.e), <<1>>), 0)

MathRound(x) ==
  IF x.e >= 0 THEN x
  ELSE LET k == -x.e
           q == BShr(x.m, k)
           r == BLow(x.m, k)
       IN  DCanon(FALSE, IF BLess(r, BShl(<<1>>, k - 1)) THEN q ELSE BAdd(q, <<1>>), 0)

\* the value of an integral number below 2^31
DToInt(x) == (IF x.neg THEN -1 ELSE 1) * BToInt(BShl(x.m, x.e))

DIsInt(x) == x.e >= 0

(***************************************************************************)
(* src/lib/calculations.ts: the arithmetic core.                           *)
(***************************************************************************)
\* the literal 100 of formatCurrency and calculateTip
Hundred == DFromInt(100)

\* Math.round(value * 100), the amount in cents as the code computes it
CentsOf(value) == MathRound(DMul(value, Hundred))

formatCurrency(value) == DDivInt(CentsOf(value), 100)

calculateTip(billAmount, tipPercent) ==
  IF DLeq(billAmount, DZero) \/ DLess(tipPercent, DZero) THEN DZero
  ELSE LET tipAmount == DMul(billAmount, DDivInt(tipPercent, 100))
       IN  formatCurrency(tipAmount)

calculateTotal(billAmount, tipAmount) == formatCurrency(DAdd(billAmount, tipAmount))

\* applyRounding with Math.round where the code has Math.ceil
applyRoundingToNearest(total, mode) ==
  IF mode = "none" THEN total
  ELSE IF mode = "up" THEN MathRound(total)
  ELSE IF mode = "down" THEN MathFloor(total)
  ELSE total

applyRounding(total, mode) ==
  IF mode = "none" THEN total
  ELSE IF mode = "up" THEN MathCeil(total)
  ELSE IF mode = "down" THEN MathFloor(total)
  ELSE total

\* the clamp without its upper end
validSplitCountUncapped(splitCount) == Max(1, splitCount)

\* Math.max(1, Math.min(50, Math.floor(splitCount))) for an integer splitCount
validSplitCountOf(splitCount) == Max(1, Min(50, splitCount))

\* calculateSplit from its second statement on, for the clamped count.  The
\* cent amounts are integral numbers far below 2^53, on which the code's
\* multiplication and subtraction are exact; the description holds the values
\* the template string interpolates, and is <<>> for the empty string.
splitOf(total, validSplitCount) ==
  LET perPerson        == formatCurrency(DDivInt(total, validSplitCount))
      totalCents       == DToInt(CentsOf(total))
      perPersonCents   == DToInt(CentsOf(perPerson))
      distributedCents == perPersonCents * validSplitCount
      remainderCents   == totalCents - distributedCents
      peoplePayingMore == remainderCents
      peoplePayingBase == validSplitCount - peoplePayingMore
      higherAmount     == formatCurrency(DDivInt(DFromInt(perPersonCents + 1), 100))
  IN  [perPerson    |-> perPerson,
       remainder    |-> remainderCents,
       distribution |->
         IF remainderCents > 0
         THEN <<peoplePayingBase, "pay", perPerson, peoplePayingMore,
                IF peoplePayingMore = 1 THEN "pays" ELSE "pay", higherAmount>>
         ELSE <<>>]

calculateSplit(total, splitCount) == splitOf(total, validSplitCountOf(splitCount))

\* the number the program holds for an amount of k cents: Math.round(..) / 100
Money(k) == DDivInt(DFromInt(k), 100)

(***************************************************************************)
(* Text.  A string is a sequence of one-character strings.                 *)
(***************************************************************************)
Digits == <<"0", "1", "2", "3", "4", "5", "6", "7", "8", "9">>

\* the class \d of the regular expressions
IsDigit(c) == \E i \in 1..10 : Digits[i] = c

DigitValue(c) == (CHOOSE i \in 1..10 : Digits[i] = c) - 1

IsSpace(c) == c = " "

IndexOf(s, c) == IF \E i \in 1..Len(s) : s[i] = c
                 THEN (CHOOSE i \in 1..Len(s) : s[i] = c /\ \A j \in 1..(i - 1) : s[j] # c) - 1
                 ELSE -1

\* s.replace(/[^\d.]/g, ""), s.replace(/[^\d]/g, "") and s.replace(/\./g, "")
KeepDigitsAndPoints(s) == SelectSeq(s, LAMBDA c : IsDigit(c) \/ c = ".")

KeepDigits(s) == SelectSeq(s, IsDigit)

DropPoints(s) == SelectSeq(s, LAMBDA c : c # ".")

RECURSIVE TrimStart(_)
TrimStart(s) == IF s # <<>> /\ IsSpace(s[1]) THEN TrimStart(Tail(s)) ELSE s

RECURSIVE TrimEnd(_)
TrimEnd(s) == IF s # <<>> /\ IsSpace(s[Len(s)]) THEN TrimEnd(SubSeq(s, 1, Len(s) - 1)) ELSE s

Trim(s) == TrimEnd(TrimStart(s))

\* s.split("."): the pieces between the points, <<"">> for the empty string
RECURSIVE SplitOnPoint(_)
SplitOnPoint(s) ==
  LET i == IndexOf(s, ".")
  IN  IF i = -1 THEN <<s>>
      ELSE <<SubSeq(s, 1, i)>> \o SplitOnPoint(SubSeq(s, i + 2, Len(s)))

\* pieces.join("")
RECURSIVE Join(_)
Join(pieces) == IF pieces = <<>> THEN <<>> ELSE pieces[1] \o Join(Tail(pieces))

\* the longest prefix of s made of digits
RECURSIVE DigitPrefix(_)
DigitPrefix(s) ==
  IF s # <<>> /\ IsDigit(s[1]) THEN <<s[1]>> \o DigitPrefix(Tail(s)) ELSE <<>>

\* the natural number a string of digits denotes
RECURSIVE BFromDigits(_)
BFromDigits(ds) ==
  IF ds = <<>> THEN <<>>
  ELSE BAdd(BMulSmall(BFromDigits(SubSeq(ds, 1, Len(ds) - 1)), 10),
            BFromInt(DigitValue(ds[Len(ds)])))

\* floor(n / 10^f), and whether anything was cut off
RECURSIVE BDivPow10(_, _)
BDivPow10(n, f) ==
  IF f = 0 THEN [q |-> n, r |-> 0]
  ELSE LET one  == BDivSmall(n, 10)
           rest == BDivPow10(one.q, f - 1)
       IN  [q |-> rest.q, r |-> IF one.r # 0 \/ rest.r # 0 THEN 1 ELSE 0]

\* the number nearest to n / 10^f
DDecimal(neg, n, f) ==
  IF n = <<>> THEN DZero
  ELSE LET t  == Max(0, 56 + 4 * f - BBitLen(n))
           qr == BDivPow10(BShl(n, t), f)
       IN  DRound(neg, qr.q, -t, qr.r # 0)

NaN == [nan |-> TRUE]

isNaN(x) == x = NaN

\* parseFloat: leading white space, an optional sign, then the longest
\* prefix of the form digits, digits.digits, digits. or .digits; NaN when
\* there is none.  (Exponents and "Infinity" need letters, which no text the
\* program parses contains: it parses only digits and points.)
parseFloat(text) ==
  LET s      == TrimStart(text)
      signed == s # <<>> /\ s[1] \in {"-", "+"}
      body   == IF signed THEN Tail(s) ELSE s
      int    == DigitPrefix(body)
      after  == SubSeq(body, Len(int) + 1, Len(body))
      frac   == IF after # <<>> /\ after[1] = "." THEN DigitPrefix(Tail(after)) ELSE <<>>
  IN  IF int = <<>> /\ frac = <<>> THEN NaN
      ELSE DDecimal(signed /\ s[1] = "-", BFromDigits(int \o frac), Len(frac))

(***************************************************************************)
(* src/lib/calculations.ts: the validators.  A result is a record with the *)
(* keys the returned object literal has.                                   *)
(***************************************************************************)
BillError == "Please enter a valid bill amount"

LargeAmountWarning == "That's a large amount - continue?"

MaxTipWarning == "Maximum tip is 100%"

\* "Handle multiple decimal points - only keep first one"
normalizedValueOf(cleaned) ==
  LET parts == SplitOnPoint(cleaned)
  IN  IF Len(parts) > 2
      THEN parts[1] \o <<".">> \o Join(SubSeq(parts, 2, Len(parts)))
      ELSE cleaned

\* the credit card test without its test for a decimal point
looksLikeCardNumberDespitePoint(value) == Len(KeepDigits(value)) >= 13

\* the credit card test of validateBillAmount
looksLikeCardNumber(value) ==
  Len(KeepDigits(value)) >= 13 /\ IndexOf(value, ".") = -1

\* the rejection without its message
billRejectionWithoutError == [isValid |-> FALSE, sanitized |-> DZero]

\* the object returned for a bill that is turned down
billRejection == [isValid |-> FALSE, sanitized |-> DZero, error |-> BillError]

\* num >= 1000000 where the code has num > 1000000
atOrOverRejectThreshold(num) == DLeq(DFromInt(1000000), num)

\* num > 1000000 and num > 10000
overRejectThreshold(num) == DLess(DFromInt(1000000), num)

overWarnThreshold(num) == DLess(DFromInt(10000), num)

\* the empty test without its trim
isEmptyInputUntrimmed(value) == value = <<>>

\* !value || value.trim() === ""
isEmptyInput(value) == value = <<>> \/ Trim(value) = <<>>

validateBillAmount(value) ==
  IF isEmptyInput(value)
  THEN [isValid |-> TRUE, sanitized |-> DZero]
  ELSE LET cleaned         == KeepDigitsAndPoints(value)
           normalizedValue == normalizedValueOf(cleaned)
           num             == parseFloat(normalizedValue)
       IN  IF looksLikeCardNumber(value) THEN billRejection
           ELSE IF isNaN(num) \/ DLess(num, DZero) THEN billRejection
           ELSE IF overRejectThreshold(num) THEN billRejection
           ELSE IF overWarnThreshold(num)
           THEN [isValid |-> TRUE, sanitized |-> formatCurrency(num),
                 warning |-> LargeAmountWarning]
           ELSE [isValid |-> TRUE, sanitized |-> formatCurrency(num)]

\* num >= 100 where the code has num > 100
atOrOverMaximumTip(num) == DLeq(DFromInt(100), num)

\* num > 100
overMaximumTip(num) == DLess(DFromInt(100), num)

validateTipPercent(value) ==
  LET cleaned         == KeepDigitsAndPoints(value)
      normalizedValue == normalizedValueOf(cleaned)
      num             == parseFloat(normalizedValue)
  IN  IF isNaN(num) \/ DLess(num, DZero)
      THEN [isValid |-> FALSE, sanitized |-> DZero]
      ELSE IF overMaximumTip(num)
      THEN [isValid |-> TRUE, sanitized |-> DFromInt(100),
            warning |-> MaxTipWarning, capped |-> TRUE]
      ELSE [isValid |-> TRUE, sanitized |-> formatCurrency(num)]

(***************************************************************************)
(* The cleaning of typed text, the same statements in                      *)
(* Calculator.handleBillChange and TipSelector.handleCustomChange.         *)
(***************************************************************************)
\* s.replace(".", ""): only the first point goes
DropFirstPoint(s) ==
  LET i == IndexOf(s, ".")
  IN  IF i = -1 THEN s ELSE SubSeq(s, 1, i) \o SubSeq(s, i + 2, Len(s))

\* the cleaning with a replace that lacks the g flag
keepFirstPointDropOne(cleaned) ==
  LET firstDecimalIndex == IndexOf(cleaned, ".")
  IN  IF firstDecimalIndex # -1
      THEN SubSeq(cleaned, 1, firstDecimalIndex + 1)
           \o DropFirstPoint(SubSeq(cleaned, firstDecimalIndex + 2, Len(cleaned)))
      ELSE cleaned

\* "Only allow one decimal point - keep the first one"
keepFirstPoint(cleaned) ==
  LET firstDecimalIndex == IndexOf(cleaned, ".")
  IN  IF firstDecimalIndex # -1
      THEN SubSeq(cleaned, 1, firstDecimalIndex + 1)
           \o DropPoints(SubSeq(cleaned, firstDecimalIndex + 2, Len(cleaned)))
      ELSE cleaned

\* "Add leading zero for decimal-first input"
addLeadingZero(cleaned) ==
  IF cleaned # <<>> /\ cleaned[1] = "." THEN <<"0">> \o cleaned ELSE cleaned

cleanInput(value) == addLeadingZero(keepFirstPoint(KeepDigitsAndPoints(value)))

(***************************************************************************)
(* The validators and the cleaning applied to a text as it is edited: the  *)
(* text is typed one character at a time or pasted whole, and each edit    *)
(* hands the new text to validateBillAmount, validateTipPercent and the    *)
(* cleaning, as the change handlers of the components do.                  *)
(***************************************************************************)
MaxTyped == 3

Keys == {"0", "1", "5", "9", ".", "-", " "}

RECURSIVE Repeat(_, _)
Repeat(c, n) == IF n = 0 THEN <<>> ELSE <<c>> \o Repeat(c, n - 1)

CardNumber == <<"4">> \o Repeat("1", 15)

\* twelve digits, one short of the card test, worth 10000
TwelveDigits == Repeat("0", 7) \o <<"1">> \o Repeat("0", 4)

Pasted == { <<"1">> \o Repeat("0", 2),
            <<"1">> \o Repeat("0", 4),
            <<"1">> \o Repeat("0", 6),
            TwelveDigits,
            CardNumber,
            <<"-", "1", "2", ".", "5", "0">> }

(***************************************************************************)
(* The arithmetic functions applied to amounts of whole cents: call holds  *)
(* the last call, its arguments and what it returned.                      *)
(***************************************************************************)
MaxBillCents == 120

MaxTipCents == 20

MaxTotalCents == 120

ExtraCounts == 3

PRESET_PERCENTAGES == {15, 18, 20, 25}

\* bills in cents: every small one, one below zero, and those of the
\* documented scenarios (45.00 and 50.00)
BillInputs == (-1..MaxBillCents) \cup {4500, 5000}

\* tip percentages in hundredths of a percent: the presets and custom values
TipInputs == {100 * p : p \in PRESET_PERCENTAGES} \cup {-100, 0, 1000, 1250, 10000}

TipAmountInputs == (0..MaxTipCents) \cup {900}

TotalInputs == (0..MaxTotalCents) \cup {5400, 5900}

RoundModes == {"none", "up", "down"}

SplitInputs == (-ExtraCounts)..(50 + ExtraCounts)

VARIABLES value, typed, cleanedInput, billResult, tipResult, call

textVars == <<value, typed, cleanedInput, billResult, tipResult>>

\* The state of the components: the useState values of Calculator, of
\* TipSelector (customInput, showCustom, tipWarning) and of SplitToggle
\* (inputValue); clock is what Date.now() returns, and event is the handler
\* that ran last, with its arguments.
VARIABLES billAmount, billInput, tipPercent, splitEnabled, splitCount,
          roundEnabled, roundMode, largeAmountWarning, previousBill,
          errorMessage, drasticChangeWarning, lastTipChange,
          customInput, showCustom, tipWarning, inputValue, clock, event

billVars == <<billAmount, billInput, largeAmountWarning, previousBill,
              errorMessage, drasticChangeWarning>>

tipVars == <<tipPercent, lastTipChange>>

selectorVars == <<customInput, showCustom, tipWarning>>

roundVars == <<roundEnabled, roundMode>>

componentVars == <<billVars, tipVars, selectorVars, roundVars, splitEnabled,
                   splitCount, inputValue, clock, event>>

vars == <<value, typed, cleanedInput, billResult, tipResult, call, componentVars>>

\* Date.now() when the page is loaded, in milliseconds
PageLoadTime == 2^30

\* what an edit that leaves the text newValue does
Edited(newValue) ==
  /\ value' = newValue
  /\ cleanedInput' = cleanInput(newValue)
  /\ billResult' = validateBillAmount(newValue)
  /\ tipResult' = validateTipPercent(newValue)

Init ==
  /\ value = <<>>
  /\ typed = 0
  /\ cleanedInput = cleanInput(<<>>)
  /\ billResult = validateBillAmount(<<>>)
  /\ tipResult = validateTipPercent(<<>>)
  /\ call = [fn |-> "none"]
  /\ billAmount = DZero
  /\ billInput = <<>>
  /\ tipPercent = DFromInt(18)
  /\ splitEnabled = FALSE
  /\ splitCount = 2
  /\ roundEnabled = FALSE
  /\ roundMode = "up"
  /\ largeAmountWarning = FALSE
  /\ previousBill = DZero
  /\ errorMessage = ""
  /\ drasticChangeWarning = FALSE
  /\ lastTipChange = 0
  /\ customInput = <<>>
  /\ showCustom = FALSE
  /\ tipWarning = ""
  /\ inputValue = <<"2">>
  /\ clock = PageLoadTime
  /\ event = [handler |-> "none"]

TypeKey(c) ==
  /\ typed < MaxTyped
  /\ typed' = typed + 1
  /\ Edited(Append(value, c))
  /\ UNCHANGED <<call, componentVars>>

\* a text pasted into the empty field
PasteText(text) ==
  /\ value = <<>>
  /\ typed' = 0
  /\ Edited(text)
  /\ UNCHANGED <<call, componentVars>>

\* the field emptied
ClearText ==
  /\ value # <<>>
  /\ typed' = 0
  /\ Edited(<<>>)
  /\ UNCHANGED <<call, componentVars>>

NextValidators ==
  \/ \E c \in Keys : TypeKey(c)
  \/ \E text \in Pasted : PasteText(text)
  \/ ClearText

SpecValidators == Init /\ [][NextValidators]_vars

CallCalculateTip(billCents, tipHundredths) ==
  /\ call.fn = "none"
  /\ call' = [fn            |-> "calculateTip",
              billCents     |-> billCents,
              tipHundredths |-> tipHundredths,
              result        |-> calculateTip(Money(billCents), Money(tipHundredths))]
  /\ UNCHANGED <<textVars, componentVars>>

CallCalculateTotal(billCents, tipCents) ==
  /\ call.fn = "none"
  /\ call' = [fn        |-> "calculateTotal",
              billCents |-> billCents,
              tipCents  |-> tipCents,
              result    |-> calculateTotal(Money(billCents), Money(tipCents))]
  /\ UNCHANGED <<textVars, componentVars>>

CallApplyRounding(totalCents, mode) ==
  /\ call.fn = "none"
  /\ call' = [fn         |-> "applyRounding",
              totalCents |-> totalCents,
              mode       |-> mode,
              result     |-> applyRounding(Money(totalCents), mode)]
  /\ UNCHANGED <<textVars, componentVars>>

CallCalculateSplit(totalCents, count) ==
  /\ call.fn = "none"
  /\ call' = [fn              |-> "calculateSplit",
              totalCents      |-> totalCents,
              splitCount      |-> count,
              validSplitCount |-> validSplitCountOf(count),
              result          |-> calculateSplit(Money(totalCents), count)]
  /\ UNCHANGED <<textVars, componentVars>>

\* the functions keep nothing between calls
Return ==
  /\ call.fn # "none"
  /\ call' = [fn |-> "none"]
  /\ UNCHANGED <<textVars, componentVars>>

NextCalculations ==
  \/ \E b \in BillInputs, p \in TipInputs : CallCalculateTip(b, p)
  \/ \E b \in BillInputs \ {-1}, t \in TipAmountInputs : CallCalculateTotal(b, t)
  \/ \E t \in TotalInputs, mode \in RoundModes : CallApplyRounding(t, mode)
  \/ \E t \in TotalInputs, n \in SplitInputs : CallCalculateSplit(t, n)
  \/ Return

SpecCalculations == Init /\ [][NextCalculations]_vars

(***************************************************************************)
(* components/Calculator.tsx and the components it renders, TipSelector,   *)
(* SplitToggle and RoundToggle.  Every handler is one action, guarded by   *)
(* the condition under which the element it hangs on is rendered.  A const *)
(* of a handler is bound by \E over the one value it has.                  *)
(***************************************************************************)
harnessVars == <<textVars, call>>

\* the 500 of "Debounce 0.5s"
DebounceMs == 500

\* the literal 0.5 of the drastic change test
Half == DDecimal(FALSE, <<5>>, 1)

null == [null |-> TRUE]

\* n.toString() for an integer n >= 0
RECURSIVE toString(_)
toString(n) ==
  IF n < 10 THEN <<Digits[n + 1]>>
  ELSE toString(n \div 10) \o <<Digits[(n % 10) + 1]>>

\* parseInt(text, 10): leading white space, an optional sign, then the
\* longest prefix of digits; NaN when there is none
parseInt(text) ==
  LET s      == TrimStart(text)
      signed == s # <<>> /\ s[1] \in {"-", "+"}
      body   == IF signed THEN Tail(s) ELSE s
      int    == DigitPrefix(body)
  IN  IF int = <<>> THEN NaN
      ELSE DDecimal(signed /\ s[1] = "-", BFromDigits(int), 0)

\* Math.min and Math.max of two numbers
MathMin(x, y) == IF DLess(y, x) THEN y ELSE x

MathMax(x, y) == IF DLess(x, y) THEN y ELSE x

\* what Calculator computes each time it renders
tipAmount == calculateTip(billAmount, tipPercent)

subtotal == calculateTotal(billAmount, tipAmount)

finalTotal == IF roundEnabled THEN applyRounding(subtotal, roundMode) ELSE subtotal

splitResult == IF splitEnabled THEN calculateSplit(finalTotal, splitCount) ELSE null

\* billAmount > 0: TipSelector, the results and the two toggles are rendered
resultsShown == DLess(DZero, billAmount)

\* splitResult && splitResult.remainder > 0: the distribution is rendered
showsDistribution ==
  resultsShown /\ splitResult # null /\ splitResult.remainder > 0

\* splitResult && splitResult.remainder === 0: "Per Person" is rendered
showsPerPerson ==
  resultsShown /\ splitResult # null /\ splitResult.remainder = 0

\* TipSelector and SplitToggle keep their state while they are rendered; one
\* that is taken off the page starts from its initial state, useState("") or
\* useState(count.toString()), when it is rendered again
Rendering(shown) ==
  IF shown THEN UNCHANGED <<selectorVars, inputValue>>
  ELSE /\ customInput' = <<>>
       /\ showCustom' = FALSE
       /\ tipWarning' = ""
       /\ inputValue' = toString(splitCount)

\* the rejection that leaves billAmount as it was
rejectBillKeepingAmount(validation) ==
  /\ errorMessage' = IF "error" \in DOMAIN validation /\ validation.error # ""
                     THEN validation.error ELSE "Invalid input"
  /\ largeAmountWarning' = FALSE
  /\ drasticChangeWarning' = FALSE
  /\ UNCHANGED <<billAmount, previousBill>>

\* handleBillChange, if (!validation.isValid) { ...; return; }
rejectBill(validation) ==
  /\ errorMessage' = IF "error" \in DOMAIN validation /\ validation.error # ""
                     THEN validation.error ELSE "Invalid input"
  /\ billAmount' = DZero
  /\ largeAmountWarning' = FALSE
  /\ drasticChangeWarning' = FALSE
  /\ UNCHANGED previousBill

\* handleBillChange after that return
acceptBill(validation) ==
  /\ errorMessage' = ""
  /\ drasticChangeWarning' =
       /\ splitEnabled
       /\ DLess(DZero, previousBill)
       /\ DLess(DZero, validation.sanitized)
       /\ DLess(DMul(previousBill, Half), DAbsDiff(validation.sanitized, previousBill))
  /\ billAmount' = validation.sanitized
  /\ previousBill' = IF DLess(DZero, validation.sanitized)
                     THEN validation.sanitized ELSE previousBill
  /\ largeAmountWarning' = ("warning" \in DOMAIN validation /\ validation.warning # "")

handleBillChange(text) ==
  \E cleaned \in {cleanInput(text)} :
  \E validation \in {validateBillAmount(cleaned)} :
    /\ billInput' = cleaned
    /\ IF ~validation.isValid THEN rejectBill(validation) ELSE acceptBill(validation)
    /\ Rendering(DLess(DZero, billAmount'))
    /\ event' = [handler |-> "handleBillChange", text |-> text]
    /\ UNCHANGED <<tipVars, roundVars, splitEnabled, splitCount, clock, harnessVars>>

\* now - lastTipChange <= 500 where the code has <
debouncedInclusive(now) == now - lastTipChange <= DebounceMs

\* now - lastTipChange < 500
debounced(now) == now - lastTipChange < DebounceMs

handleTipChange(percent) ==
  LET now == clock
  IN  IF debounced(now) THEN UNCHANGED tipVars
      ELSE /\ tipPercent' = percent
           /\ lastTipChange' = now

(***************************************************************************)
(* components/TipSelector.tsx; onPercentChange is handleTipChange.  The    *)
(* event of a handler that calls it holds the percentage it asked for.     *)
(***************************************************************************)
handlePresetClick(percent) ==
  /\ resultsShown
  /\ handleTipChange(DFromInt(percent))
  /\ showCustom' = FALSE
  /\ customInput' = <<>>
  /\ tipWarning' = ""
  /\ event' = [handler   |-> "handlePresetClick",
               requested |-> <<DFromInt(percent)>>,
               now       |-> clock]
  /\ UNCHANGED <<billVars, roundVars, splitEnabled, splitCount, inputValue,
                 clock, harnessVars>>

handleCustomClick ==
  /\ resultsShown
  /\ ~showCustom
  /\ showCustom' = TRUE
  /\ event' = [handler |-> "handleCustomClick"]
  /\ UNCHANGED <<billVars, tipVars, customInput, tipWarning, roundVars,
                 splitEnabled, splitCount, inputValue, clock, harnessVars>>

handleCustomChange(text) ==
  /\ resultsShown
  /\ showCustom
  /\ \E cleaned \in {cleanInput(text)} :
     \E validation \in {validateTipPercent(cleaned)} :
     LET applied == validation.isValid /\ DLess(DZero, validation.sanitized)
         capped  == "capped" \in DOMAIN validation /\ validation.capped
     IN  /\ IF applied THEN handleTipChange(validation.sanitized)
            ELSE UNCHANGED tipVars
         /\ customInput' = IF applied /\ capped THEN <<"1", "0", "0">> ELSE cleaned
         /\ tipWarning' =
              IF applied /\ capped
              THEN IF "warning" \in DOMAIN validation /\ validation.warning # ""
                   THEN validation.warning ELSE "Maximum tip is 100%"
              ELSE ""
         /\ event' = [handler   |-> "handleCustomChange",
                      text      |-> text,
                      requested |-> IF applied THEN <<validation.sanitized>> ELSE <<>>,
                      now       |-> clock]
  /\ UNCHANGED <<billVars, showCustom, roundVars, splitEnabled, splitCount,
                 inputValue, clock, harnessVars>>

(***************************************************************************)
(* components/SplitToggle.tsx; count is splitCount and onCountChange is    *)
(* setSplitCount.  The event of a handler holds the count it was rendered  *)
(* with and the count it passed to onCountChange.  The two buttons are     *)
(* disabled at the ends of the range; the handlers have a Math.min and a   *)
(* Math.max of their own for a call at the ends, and the actions allow it. *)
(***************************************************************************)
onToggleSplit ==
  /\ resultsShown
  /\ splitEnabled' = ~splitEnabled
  /\ event' = [handler |-> "SplitToggle.onToggle"]
  /\ UNCHANGED <<billVars, tipVars, selectorVars, roundVars, splitCount,
                 inputValue, clock, harnessVars>>

\* count + 1 where the code has Math.min(50, count + 1)
incrementedUncapped(count) == count + 1

\* Math.min(50, count + 1)
incremented(count) == Min(50, count + 1)

\* Math.max(1, count - 1)
decremented(count) == Max(1, count - 1)

onCountChange(handler, newCount) ==
  /\ splitCount' = newCount
  /\ event' = [handler |-> handler, count |-> splitCount, passed |-> newCount]

increment ==
  /\ resultsShown
  /\ splitEnabled
  /\ LET newCount == incremented(splitCount)
     IN  /\ onCountChange("increment", newCount)
         /\ inputValue' = toString(newCount)
  /\ UNCHANGED <<billVars, tipVars, selectorVars, roundVars, splitEnabled,
                 clock, harnessVars>>

decrement ==
  /\ resultsShown
  /\ splitEnabled
  /\ LET newCount == decremented(splitCount)
     IN  /\ onCountChange("decrement", newCount)
         /\ inputValue' = toString(newCount)
  /\ UNCHANGED <<billVars, tipVars, selectorVars, roundVars, splitEnabled,
                 clock, harnessVars>>

handleInputChange(text) ==
  /\ resultsShown
  /\ splitEnabled
  /\ \E cleaned \in {KeepDigits(text)} :
     \E num \in {parseInt(cleaned)} :
     LET clamped == MathMax(DFromInt(1), MathMin(DFromInt(50), num))
     IN  IF ~isNaN(num)
         THEN /\ splitCount' = DToInt(clamped)
              /\ inputValue' = IF DLess(DFromInt(50), num) THEN <<"5", "0">>
                               ELSE IF DLess(num, DFromInt(1)) THEN <<"1">>
                               ELSE cleaned
              /\ event' = [handler |-> "handleInputChange", text |-> text,
                           count |-> splitCount, passed |-> DToInt(clamped)]
         ELSE /\ splitCount' = 1
              /\ inputValue' = cleaned
              /\ event' = [handler |-> "handleInputChange", text |-> text,
                           count |-> splitCount, passed |-> 1]
  /\ UNCHANGED <<billVars, tipVars, selectorVars, roundVars, splitEnabled,
                 clock, harnessVars>>

(***************************************************************************)
(* components/RoundToggle.tsx                                              *)
(***************************************************************************)
onToggleRound ==
  /\ resultsShown
  /\ roundEnabled' = ~roundEnabled
  /\ event' = [handler |-> "RoundToggle.onToggle"]
  /\ UNCHANGED <<billVars, tipVars, selectorVars, roundMode, splitEnabled,
                 splitCount, inputValue, clock, harnessVars>>

onModeChange(mode) ==
  /\ resultsShown
  /\ roundEnabled
  /\ roundMode' = mode
  /\ event' = [handler |-> "onModeChange", mode |-> mode]
  /\ UNCHANGED <<billVars, tipVars, selectorVars, roundEnabled, splitEnabled,
                 splitCount, inputValue, clock, harnessVars>>

(***************************************************************************)
(* What the user does, and the passing of time.  A field shows the text    *)
(* its component holds, so a key typed into it hands the handler that text *)
(* with the key appended, the erase key that text less its last character, *)
(* a text pasted over the selection that text.                             *)
(***************************************************************************)
MaxBillTyped == 2

MaxTipTyped == 3

MaxCountTyped == 2

MaxTicks == 3

\* the clock is read every half debounce interval
Quantum == DebounceMs \div 2

BillKeys == {"0", "5", "-"}

BillPasted == { <<"0", ".", "0", "1">>,
                <<"5", "0">>,
                <<"2">> \o Repeat("0", 4),
                <<"1">> \o Repeat("0", 5) \o <<"1">>,
                CardNumber }

CustomKeys == {"0", "1", "5"}

CountKeys == {"0", "5", "a"}

Tick ==
  /\ clock < PageLoadTime + MaxTicks * Quantum
  /\ clock' = clock + Quantum
  /\ event' = [handler |-> "none"]
  /\ UNCHANGED <<billVars, tipVars, selectorVars, roundVars, splitEnabled,
                 splitCount, inputValue, harnessVars>>

TypeBill(c) ==
  /\ Len(billInput) < MaxBillTyped
  /\ handleBillChange(Append(billInput, c))

PasteBill(text) == handleBillChange(text)

ClearBill ==
  /\ billInput # <<>>
  /\ handleBillChange(<<>>)

TypeCustom(c) ==
  /\ Len(customInput) < MaxTipTyped
  /\ handleCustomChange(Append(customInput, c))

EraseCustom ==
  /\ customInput # <<>>
  /\ handleCustomChange(SubSeq(customInput, 1, Len(customInput) - 1))

TypeCount(c) ==
  /\ Len(inputValue) < MaxCountTyped
  /\ handleInputChange(Append(inputValue, c))

EraseCount ==
  /\ inputValue # <<>>
  /\ handleInputChange(SubSeq(inputValue, 1, Len(inputValue) - 1))

\* the whole page
Next ==
  \/ \E c \in BillKeys : TypeBill(c)
  \/ \E text \in BillPasted : PasteBill(text)
  \/ ClearBill
  \/ \E percent \in PRESET_PERCENTAGES : handlePresetClick(percent)
  \/ handleCustomClick
  \/ \E c \in CustomKeys : TypeCustom(c)
  \/ EraseCustom
  \/ onToggleSplit
  \/ increment
  \/ decrement
  \/ \E c \in CountKeys : TypeCount(c)
  \/ EraseCount
  \/ onToggleRound
  \/ \E mode \in {"up", "down"} : onModeChange(mode)
  \/ Tick

Spec == Init /\ [][Next]_vars

\* the bill field and the settings that its handler is to leave alone, all
\* within the first half second
NextCalculator ==
  \/ \E c \in BillKeys : TypeBill(c)
  \/ \E text \in BillPasted : PasteBill(text)
  \/ ClearBill
  \/ \E percent \in {15, 25} : handlePresetClick(percent)
  \/ onToggleSplit
  \/ onToggleRound
  \/ \E mode \in {"up", "down"} : onModeChange(mode)

SpecCalculator == Init /\ [][NextCalculator]_vars

\* a bill of 50.00 entered and emptied, and the tip selected at any time
NextTipSelector ==
  \/ \E text \in {<<"5", "0">>} : PasteBill(text)
  \/ ClearBill
  \/ \E percent \in PRESET_PERCENTAGES : handlePresetClick(percent)
  \/ handleCustomClick
  \/ \E c \in CustomKeys : TypeCustom(c)
  \/ EraseCustom
  \/ Tick

SpecTipSelector == Init /\ [][NextTipSelector]_vars

\* three bills, the total rounded or not, split or not
NextSplitToggle ==
  \/ \E text \in {<<"0", ".", "0", "1">>, <<"5", "0">>} : PasteBill(text)
  \/ ClearBill
  \/ onToggleSplit
  \/ increment
  \/ decrement
  \/ \E c \in CountKeys : TypeCount(c)
  \/ EraseCount
  \/ onToggleRound
  \/ \E mode \in {"up", "down"} : onModeChange(mode)

SpecSplitToggle == Init /\ [][NextSplitToggle]_vars

(***************************************************************************)
(* The amount a text denotes, read off its decimal digits: the characters  *)
(* other than digits and points do not count, the first point is the       *)
(* decimal point and later points do not count either.                     *)
(***************************************************************************)
HasPoint(text) == \E i \in 1..Len(text) : text[i] = "."

HasDigit(text) == \E i \in 1..Len(text) : IsDigit(text[i])

IsBlank(text) == \A i \in 1..Len(text) : text[i] = " "

UnitDigits(text) ==
  LET kept == KeepDigitsAndPoints(text)
      i    == IndexOf(kept, ".")
  IN  IF i = -1 THEN kept ELSE SubSeq(kept, 1, i)

FractionDigits(text) ==
  LET kept == KeepDigitsAndPoints(text)
      i    == IndexOf(kept, ".")
  IN  IF i = -1 THEN <<>> ELSE KeepDigits(SubSeq(kept, i + 2, Len(kept)))

\* the amount is greater than the whole number limit
Exceeds(text, limit) ==
  LET units == BFromDigits(UnitDigits(text))
  IN  \/ BLess(BFromInt(limit), units)
      \/ /\ units = BFromInt(limit)
         /\ \E i \in 1..Len(FractionDigits(text)) : FractionDigits(text)[i] # "0"

RECURSIVE BPow10(_)
BPow10(f) == IF f = 0 THEN <<1>> ELSE BMulSmall(BPow10(f - 1), 10)

\* x is a whole number k of hundredths, as the program holds it, and no
\* other whole number of hundredths is nearer to the amount
IsAmountToNearestHundredth(x, text) ==
  LET f     == Len(FractionDigits(text))
      n     == BMulSmall(BFromDigits(UnitDigits(text) \o FractionDigits(text)), 100)
      k     == DToInt(CentsOf(x))
      scale == BPow10(f)
      kn    == BMul(BFromInt(k), scale)
      diff  == IF BLess(n, kn) THEN BSub(kn, n) ELSE BSub(n, kn)
  IN  /\ x = Money(k)
      /\ ~BLess(scale, BMulSmall(diff, 2))

(***************************************************************************)
(* Properties of the validators and the cleaning (under SpecValidators).   *)
(***************************************************************************)

\* C2 as stated: a result of either validator with isValid false has
\* sanitized 0 and a populated error message, and one with isValid true has
\* a usable sanitized value, a number that is not negative.
RejectionsCarryError ==
  \A r \in {billResult, tipResult} :
    /\ r.isValid \in BOOLEAN
    /\ ~r.isValid => /\ r.sanitized = DZero
                     /\ "error" \in DOMAIN r
                     /\ r.error # ""
    /\ r.isValid => ~isNaN(r.sanitized) /\ ~r.sanitized.neg

\* C2, amended: a rejected bill has sanitized 0 and a populated error
\* message; a rejected tip has sanitized 0 and no error message, its result
\* having no such field; an accepted result of either has a usable sanitized
\* value, warning or not; every text gets a result.
RejectionsAreNeutral ==
  /\ billResult.isValid \in BOOLEAN /\ tipResult.isValid \in BOOLEAN
  /\ ~billResult.isValid => /\ billResult.sanitized = DZero
                            /\ "error" \in DOMAIN billResult
                            /\ billResult.error # ""
  /\ ~tipResult.isValid => /\ tipResult.sanitized = DZero
                           /\ "error" \notin DOMAIN tipResult
  /\ \A r \in {billResult, tipResult} :
       r.isValid => ~isNaN(r.sanitized) /\ ~r.sanitized.neg

\* C2, its case: a text both validators turn down
BothRejected == value # <<>> /\ ~billResult.isValid /\ ~tipResult.isValid

\* C3 as stated: thirteen or more digits and no decimal point are rejected,
\* and the sixteen digits of a card number followed by ".00" are accepted
\* with the large-amount warning.
CardNumberWithPointAccepted ==
  /\ (Len(KeepDigits(value)) >= 13 /\ ~HasPoint(value)) => ~billResult.isValid
  /\ value = CardNumber \o <<".", "0", "0">> =>
       /\ billResult.isValid
       /\ "warning" \in DOMAIN billResult
       /\ billResult.warning = LargeAmountWarning

\* C3, amended: thirteen or more digits and no decimal point are rejected
\* whatever they amount to; with a decimal point the digit count decides
\* nothing and the text is accepted exactly when its amount is at most
\* 1,000,000, so the sixteen digits followed by ".00" are rejected too.
CardTestNeedsNoPoint ==
  /\ (Len(KeepDigits(value)) >= 13 /\ ~HasPoint(value)) =>
       billResult = [isValid |-> FALSE, sanitized |-> DZero, error |-> BillError]
  /\ (Len(KeepDigits(value)) >= 13 /\ HasPoint(value)) =>
       (billResult.isValid <=> ~Exceeds(value, 1000000))
  /\ value = CardNumber \o <<".", "0", "0">> => ~billResult.isValid

\* C3, its case: thirteen digits with a decimal point, accepted
ThirteenDigitsWithPointAccepted ==
  /\ Len(KeepDigits(value)) >= 13
  /\ HasPoint(value)
  /\ billResult.isValid
  /\ "warning" \in DOMAIN billResult

\* C4: a text that gets as far as being parsed to an amount v is rejected
\* with the generic error for v > 1,000,000, accepted with the large-amount
\* warning and v to the nearest cent for 10,000 < v <= 1,000,000, and
\* accepted with v to the nearest cent and neither warning nor error for
\* v <= 10,000; an accepted amount is in 0..1,000,000; 1000000.00 is
\* accepted and 1000000.01 is not.
BillThresholds ==
  /\ (~IsBlank(value) /\ HasDigit(value)
        /\ ~(Len(KeepDigits(value)) >= 13 /\ ~HasPoint(value))) =>
       IF Exceeds(value, 1000000)
       THEN billResult = [isValid |-> FALSE, sanitized |-> DZero, error |-> BillError]
       ELSE IF Exceeds(value, 10000)
       THEN /\ billResult.isValid
            /\ DOMAIN billResult = {"isValid", "sanitized", "warning"}
            /\ billResult.warning = LargeAmountWarning
            /\ IsAmountToNearestHundredth(billResult.sanitized, value)
       ELSE /\ billResult.isValid
            /\ DOMAIN billResult = {"isValid", "sanitized"}
            /\ IsAmountToNearestHundredth(billResult.sanitized, value)
  /\ billResult.isValid =>
       DLeq(DZero, billResult.sanitized) /\ DLeq(billResult.sanitized, DFromInt(1000000))
  /\ value = <<"1">> \o Repeat("0", 6) \o <<".", "0", "0">> => billResult.isValid
  /\ value = <<"1">> \o Repeat("0", 6) \o <<".", "0", "1">> => ~billResult.isValid

\* C4, its case: one cent over the limit, rejected
OneCentOverLimitRejected ==
  /\ value = <<"1">> \o Repeat("0", 6) \o <<".", "0", "1">>
  /\ ~billResult.isValid

\* the text is a minus sign and a decimal numeral that is not zero
IsNegativeAmount(text) ==
  /\ Len(text) >= 2
  /\ text[1] = "-"
  /\ IsDigit(text[2])
  /\ \A i \in 2..Len(text) : IsDigit(text[i]) \/ text[i] = "."
  /\ Len(SelectSeq(text, LAMBDA c : c = ".")) <= 1
  /\ \E i \in 2..Len(text) : IsDigit(text[i]) /\ text[i] # "0"

\* C5: a text that denotes a negative amount is rejected with sanitized 0
\* and the generic error.
NegativeAmountsRejected ==
  IsNegativeAmount(value) =>
    billResult = [isValid |-> FALSE, sanitized |-> DZero, error |-> BillError]

\* C6: a tip text parsed to v > 100 is accepted as 100 with the warning
\* "Maximum tip is 100%" and capped; one parsed to v <= 100, 100 itself
\* included, is accepted as v to 2 decimals with no warning and not capped;
\* an accepted percentage is in 0..100.
TipIsCappedAtHundred ==
  /\ HasDigit(value) =>
       IF Exceeds(value, 100)
       THEN tipResult = [isValid |-> TRUE, sanitized |-> DFromInt(100),
                         warning |-> MaxTipWarning, capped |-> TRUE]
       ELSE /\ tipResult.isValid
            /\ DOMAIN tipResult = {"isValid", "sanitized"}
            /\ IsAmountToNearestHundredth(tipResult.sanitized, value)
  /\ tipResult.isValid =>
       DLeq(DZero, tipResult.sanitized) /\ DLeq(tipResult.sanitized, DFromInt(100))
  /\ value = <<"1", "0", "0">> => tipResult = [isValid |-> TRUE, sanitized |-> DFromInt(100)]

\* C6, its case: 100.01, capped
JustOverHundredCapped ==
  /\ value = <<"1", "0", "0", ".", "0", "1">>
  /\ tipResult.isValid
  /\ "capped" \in DOMAIN tipResult
  /\ tipResult.sanitized = DFromInt(100)

\* C8: cleaning a cleaned text changes nothing, for the cleaning of the
\* change handlers and for the normalisation inside the validators.
CleaningIsIdempotent ==
  /\ cleanInput(cleanedInput) = cleanedInput
  /\ LET normalized == normalizedValueOf(KeepDigitsAndPoints(value))
     IN  normalizedValueOf(KeepDigitsAndPoints(normalized)) = normalized

\* C8, its case: a text that starts with a point and has a second one
SeveralPointsCleaned ==
  /\ Len(value) >= 3
  /\ value[1] = "."
  /\ Len(SelectSeq(value, LAMBDA c : c = ".")) >= 2
  /\ cleanedInput[1] = "0"
  /\ Len(SelectSeq(cleanedInput, LAMBDA c : c = ".")) = 1

(***************************************************************************)
(* Properties of the arithmetic functions (under SpecCalculations).        *)
(***************************************************************************)

\* C1: for a total of whole cents and a splitCount in 1..50, calculateSplit
\* returns a remainder r with 0 <= r < validSplitCount, and perPersonCents *
\* (validSplitCount - r) + (perPersonCents + 1) * r is the total in cents.
SplitReconciles ==
  (call.fn = "calculateSplit" /\ call.splitCount \in 1..50) =>
    LET r              == call.result.remainder
        n              == call.validSplitCount
        perPersonCents == DToInt(CentsOf(call.result.perPerson))
    IN  /\ 0 <= r
        /\ r < n
        /\ perPersonCents * (n - r) + (perPersonCents + 1) * r = call.totalCents

\* C7: for every integer splitCount, below 1 and above 50 included, the
\* divisor calculateSplit uses is max(1, min(50, splitCount)), a number in
\* 1..50, and the result is that of calculateSplit for the clamped count.
SplitCountIsClamped ==
  call.fn = "calculateSplit" =>
    LET clamped == Max(1, Min(50, call.splitCount))
    IN  /\ call.validSplitCount \in 1..50
        /\ call.validSplitCount = clamped
        /\ call.result = calculateSplit(Money(call.totalCents), clamped)

\* C7, its case: a count above 50 was given for a positive total
SplitCountAboveRange ==
  /\ call.fn = "calculateSplit"
  /\ call.splitCount > 50
  /\ call.totalCents > 0
  /\ call.validSplitCount = 50

\* C9: calculateTip is 0 for a bill <= 0 or a percentage < 0 and otherwise
\* bill * percentage / 100 rounded to the nearest cent, halves up;
\* calculateTotal is the sum of bill and tip in cents.
TipIsProductRoundedHalfUp ==
  /\ call.fn = "calculateTip" =>
       call.result =
         IF call.billCents <= 0 \/ call.tipHundredths < 0 THEN DZero
         ELSE Money((call.billCents * call.tipHundredths + 5000) \div 10000)
  /\ call.fn = "calculateTotal" =>
       call.result = Money(call.billCents + call.tipCents)

\* C10: applyRounding leaves the total alone for "none", gives the smallest
\* whole unit >= total for "up" and the largest whole unit <= total for
\* "down"; down <= total <= up, up - down is 0 or 1, and rounding the result
\* again in the same mode changes nothing.
RoundingSnapsToWholeUnits ==
  call.fn = "applyRounding" =>
    LET total == Money(call.totalCents)
        up    == applyRounding(total, "up")
        down  == applyRounding(total, "down")
    IN  /\ call.mode = "none" => call.result = total
        /\ call.mode = "up" => call.result = DFromInt((call.totalCents + 99) \div 100)
        /\ call.mode = "down" => call.result = DFromInt(call.totalCents \div 100)
        /\ applyRounding(call.result, call.mode) = call.result
        /\ DLeq(down, total) /\ DLeq(total, up)
        /\ DToInt(up) - DToInt(down) \in {0, 1}

\* C10, its case: a total that is not a whole unit was rounded up
RoundedUpFractionalTotal ==
  /\ call.fn = "applyRounding"
  /\ call.mode = "up"
  /\ call.totalCents % 100 # 0
  /\ call.result = DFromInt(call.totalCents \div 100 + 1)

\* C11: an empty text and a text of white space only are the valid "not yet
\* entered" state: validateBillAmount returns isValid true and sanitized 0
\* with neither warning nor error, before any rejection rule is tried, the
\* one for a text that parses to no number included.
EmptyTextIsNotYetEntered ==
  IsBlank(value) =>
    /\ billResult = [isValid |-> TRUE, sanitized |-> DZero]
    /\ DOMAIN billResult = {"isValid", "sanitized"}
    /\ isNaN(parseFloat(normalizedValueOf(KeepDigitsAndPoints(value))))

\* C11, its case: white space only, accepted as 0
WhiteSpaceOnlyAccepted ==
  /\ Len(value) >= 2
  /\ IsBlank(value)
  /\ billResult.isValid
  /\ billResult.sanitized = DZero

\* the last handler asked handleTipChange for a percentage
TipChangeRequested(e) ==
  /\ e.handler \in {"handlePresetClick", "handleCustomChange"}
  /\ e.requested # <<>>

\* C12: a tip change asked for less than 500 ms after the last accepted one
\* leaves tipPercent and lastTipChange as they were; one asked for 500 ms or
\* more after it sets tipPercent to the percentage asked for and
\* lastTipChange to the time of the call; so whenever lastTipChange moves,
\* it moves by at least 500 ms.
TipChangesAreDebounced ==
  [][/\ TipChangeRequested(event') =>
          IF event'.now - lastTipChange < 500
          THEN tipPercent' = tipPercent /\ lastTipChange' = lastTipChange
          ELSE tipPercent' = event'.requested[1] /\ lastTipChange' = event'.now
     /\ lastTipChange' # lastTipChange =>
          /\ TipChangeRequested(event')
          /\ lastTipChange' - lastTipChange >= 500]_vars

\* C12, its case: a change asked for 250 ms after an accepted one, ignored
TipChangeIgnored ==
  /\ TipChangeRequested(event)
  /\ event.now - lastTipChange > 0
  /\ event.now - lastTipChange < 500
  /\ tipPercent # event.requested[1]

\* C13: the count SplitToggle was rendered with is in 1..50, every count
\* its handlers pass to onCountChange is in 1..50 and becomes splitCount;
\* increment at 50 passes 50 and decrement at 1 passes 1; a text without a
\* digit, the empty text included, passes 1.
SplitCountStaysInRange ==
  /\ splitCount \in 1..50
  /\ event.handler \in {"increment", "decrement", "handleInputChange"} =>
       /\ event.count \in 1..50
       /\ event.passed \in 1..50
       /\ splitCount = event.passed
  /\ (event.handler = "increment" /\ event.count = 50) => event.passed = 50
  /\ (event.handler = "decrement" /\ event.count = 1) => event.passed = 1
  /\ (event.handler = "handleInputChange" /\ ~HasDigit(event.text)) =>
       event.passed = 1

\* C13, its case: increment called at 50
IncrementAtFifty ==
  /\ event.handler = "increment"
  /\ event.count = 50
  /\ splitCount = 50
  /\ inputValue = <<"5", "0">>

\* C14: while the split is enabled and the bill amount is positive, exactly
\* one of the per-person amount and the distribution is on the page, the
\* first for a remainder of 0, the second, not empty, for a remainder > 0;
\* the distribution is not empty exactly when the remainder is > 0.
SplitOutcomeIsShown ==
  (splitEnabled /\ resultsShown) =>
    /\ showsPerPerson # showsDistribution
    /\ showsPerPerson => splitResult.remainder = 0
    /\ showsDistribution =>
         splitResult.remainder > 0 /\ splitResult.distribution # <<>>
    /\ (splitResult.distribution # <<>>) <=> (splitResult.remainder > 0)

\* C15: while the custom tip field is on the page and its text validates to
\* a positive percentage, tipPercent is that percentage.
CustomTipIsApplied ==
  (resultsShown /\ showCustom) =>
    LET validation == validateTipPercent(customInput)
    IN  (validation.isValid /\ DLess(DZero, validation.sanitized)) =>
          tipPercent = validation.sanitized

\* C16: whenever errorMessage is not empty, billAmount is 0 and neither
\* warning is set; an edit of the bill whose cleaned text is rejected sets
\* errorMessage and leaves previousBill, tipPercent and the split and round
\* settings as they were; one whose cleaned text is accepted empties
\* errorMessage and sets billAmount to the sanitized value.
BillEditsKeepErrorsApart ==
  /\ [](errorMessage # "" =>
          billAmount = DZero /\ ~largeAmountWarning /\ ~drasticChangeWarning)
  /\ [][event'.handler = "handleBillChange" =>
          LET validation == validateBillAmount(cleanInput(event'.text))
          IN  IF validation.isValid
              THEN errorMessage' = "" /\ billAmount' = validation.sanitized
              ELSE /\ errorMessage' # ""
                   /\ UNCHANGED <<previousBill, tipPercent, splitEnabled,
                                  splitCount, roundEnabled, roundMode>>]_vars

\* C16, its case: a rejected edit after a bill was entered, the split
\* enabled and the tip changed
RejectedAfterSettingsChanged ==
  /\ event.handler = "handleBillChange"
  /\ errorMessage = BillError
  /\ DLess(DZero, previousBill)
  /\ splitEnabled
  /\ roundEnabled
  /\ tipPercent # DFromInt(18)
====
